---- MODULE Spec2Model ----
(***************************************************************************)
(* State-machine model of the VQA backend: the aiohttp facade of           *)
(* backend/main.py, the preference routes of backend/api_routes.py and the *)
(* SQL-backed preference store / query log of backend/azure_integration.py *)
(***************************************************************************)
EXTENDS Integers, Sequences, FiniteSets, TLC

(***************************************************************************)
(* Value domains.  tts_speed is a FLOAT in the source; it is modelled in   *)
(* tenths (1.0 is 10, 1.5 is 15).                                          *)
(***************************************************************************)
DEFAULT_USER == "default_user"

Users == {DEFAULT_USER, "u1"}

DEFAULT_TTS_SPEED == 10

DEFAULT_INTERVAL == 10

DEFAULT_MODE == "dynamic"

Speeds == {DEFAULT_TTS_SPEED, 15}

Intervals == {DEFAULT_INTERVAL, 5}

Modes == {DEFAULT_MODE, "static"}

\* Longest QueryHistory the model lets accumulate.
MaxLog == 2

\* Longest imageBase64 string given to decode_base64_image.
MaxLen == 4

\* Outcome of the database round trip of one call: everything succeeds,
\* pyodbc.connect raises, cursor.execute raises, or the statement is run (and
\* committed) and conn.close() raises.
DbFaults == {"none", "connect", "execute", "close"}

VARIABLES
    rows,             \* table UserPreferences: a set of rows
    history,          \* table QueryHistory: a sequence of rows
    sql_init,         \* how _init_database ended when sql_service was built
    sql_enabled,      \* api_routes.sql_service.enabled
    azure,            \* main.azure: "None" or "mgr"
    azure_sql_enabled,\* azure.sql.enabled
    monitor_enabled,  \* azure.monitor.enabled
    blip_model,       \* main.blip_model: "None" or "loaded"
    processor,        \* main.processor: "None" or "loaded"
    started,          \* on_startup has run
    AZURE_SPEECH_KEY, \* "None" or "key"
    speechsdk,        \* the import of azure.cognitiveservices.speech succeeded
    resp,             \* the request just served and what the server answered
    ret,              \* the direct store call just made and what it returned
    lastSave          \* per user: the last save call made for that user

vars == <<rows, history, sql_init, sql_enabled, azure, azure_sql_enabled,
          monitor_enabled, blip_model, processor, started, AZURE_SPEECH_KEY, speechsdk, resp,
          ret, lastSave>>

configVars == <<sql_init, sql_enabled, azure, azure_sql_enabled,
                monitor_enabled,
                AZURE_SPEECH_KEY, speechsdk>>

modelVars == <<blip_model, processor, started>>

(***************************************************************************)
(* azure_integration.AzureSQLService                                       *)
(***************************************************************************)
Prefs(s, i, m) ==
    [tts_speed |-> s, announcement_interval |-> i, priority_mode |-> m]

Row(u, s, i, m) ==
    [user_id |-> u, tts_speed |-> s, announcement_interval |-> i,
     priority_mode |-> m]

DEFAULT_PREFS == Prefs(DEFAULT_TTS_SPEED, DEFAULT_INTERVAL, DEFAULT_MODE)

\* __init__(self), lines 36-41: the value of self.enabled once the
\* constructor is done, given how _init_database (connect, two executes,
\* commit, close) ended.  No other statement of the class assigns enabled.
AzureSQLService_init(fault) == fault = "none"

\* SELECT ... FROM UserPreferences WHERE user_id = ?
Matching(tbl, u) == {r \in tbl : r.user_id = u}

\* What a method of the service does for its caller: it returns value, or an
\* exception leaves it.
Return(value) == [raised |-> FALSE, value |-> value]

Raised == [raised |-> TRUE]

\* The row fetchone() yields, as the dict the method builds from it.
Fetched(tbl, u) ==
    LET row == CHOOSE r \in Matching(tbl, u) : TRUE
    IN  Prefs(row.tts_speed, row.announcement_interval, row.priority_mode)

\* get_user_preferences(self, user_id).  Offline mode answers before any
\* connection is made; a failing connect or execute is caught; a failing
\* conn.close() in the finally clause is not.
\* (get_any_row drops the WHERE clause and get_raises_on_connect leaves the
\* connect outside the try block: variants the properties must reject.)
get_any_row(enabled, fault, tbl, u) ==
    IF ~enabled THEN Return(DEFAULT_PREFS)
    ELSE IF fault \in {"connect", "execute"} THEN Return(DEFAULT_PREFS)
    ELSE IF fault = "close" THEN Raised
    ELSE IF tbl # {}
         THEN LET row == CHOOSE r \in tbl : TRUE
              IN  Return(Prefs(row.tts_speed, row.announcement_interval,
                               row.priority_mode))
         ELSE Return(DEFAULT_PREFS)

get_raises_on_connect(enabled, fault, tbl, u) ==
    IF ~enabled THEN Return(DEFAULT_PREFS)
    ELSE IF fault = "execute" THEN Return(DEFAULT_PREFS)
    ELSE IF fault \in {"close", "connect"} THEN Raised
    ELSE IF Matching(tbl, u) # {} THEN Return(Fetched(tbl, u))
    ELSE Return(DEFAULT_PREFS)

get_user_preferences(enabled, fault, tbl, u) ==
    IF ~enabled THEN Return(DEFAULT_PREFS)
    ELSE IF fault \in {"connect", "execute"} THEN Return(DEFAULT_PREFS)
    ELSE IF fault = "close" THEN Raised
    ELSE IF Matching(tbl, u) # {} THEN Return(Fetched(tbl, u))
    ELSE Return(DEFAULT_PREFS)

\* The MERGE statement: update the matched rows, insert when none matches.
\* (MergeInsertOnly drops the WHEN MATCHED branch, MergeAlwaysInsert the ON
\* clause: the properties below must tell them from Merge.)
MergeInsertOnly(tbl, u, s, i, m) ==
    IF Matching(tbl, u) # {} THEN tbl ELSE tbl \cup {Row(u, s, i, m)}

MergeAlwaysInsert(tbl, u, s, i, m) == tbl \cup {Row(u, s, i, m)}

Merge(tbl, u, s, i, m) ==
    IF Matching(tbl, u) # {}
    THEN (tbl \ Matching(tbl, u)) \cup {Row(u, s, i, m)}
    ELSE tbl \cup {Row(u, s, i, m)}

\* save_user_preferences(self, user_id, speed, interval, mode): value is the
\* table after the call.  A failing connect or execute is caught and nothing
\* is committed; a failing conn.close() comes after the commit and is not
\* caught.  (save_ignores_enabled is the variant without the offline check.)
save_ignores_enabled(enabled, fault, tbl, u, s, i, m) ==
    IF fault \in {"connect", "execute"} THEN Return(tbl)
    ELSE IF fault = "close"
    THEN [raised |-> TRUE, value |-> Merge(tbl, u, s, i, m)]
    ELSE Return(Merge(tbl, u, s, i, m))

save_user_preferences(enabled, fault, tbl, u, s, i, m) ==
    IF ~enabled THEN Return(tbl)
    ELSE IF fault \in {"connect", "execute"} THEN Return(tbl)
    ELSE IF fault = "close"
    THEN [raised |-> TRUE, value |-> Merge(tbl, u, s, i, m)]
    ELSE Return(Merge(tbl, u, s, i, m))

\* log_query(self, user_id, question, answer): the QueryHistory after it.
\* Every failure, conn.close() included, is inside its try block.
log_query(enabled, fault, log, u, q, a) ==
    IF ~enabled THEN log
    ELSE IF fault \in {"connect", "execute"} THEN log
    ELSE Append(log, [user_id |-> u, question |-> q, answer |-> a])

(***************************************************************************)
(* Direct calls on the preference store (api_routes.sql_service).          *)
(***************************************************************************)
NoResp == [route |-> "none"]

NoRet == [op |-> "none"]

\* reached: the service was online and the statement of that call was run
\* and committed.  returned: the call returned to its caller.  repeats: the
\* call directly before this one was a save of the same values for the same
\* user, and that one was "dropped" or "reached" the table ("no" otherwise).
SaveCall(u, s, i, m, fault) ==
    LET r == save_user_preferences(sql_enabled, fault, rows, u, s, i, m)
        again == /\ ret.op = "save"
                 /\ ret.user = u
                 /\ lastSave[u].prefs = Prefs(s, i, m)
    IN  /\ rows' = r.value
        /\ ret' = [op |-> "save", user |-> u, fault |-> fault, result |-> r]
        /\ lastSave' = [v \in DOMAIN lastSave \cup {u} |->
                          IF v = u
                          THEN [prefs |-> Prefs(s, i, m),
                                reached |-> sql_enabled
                                            /\ fault \in {"none", "close"},
                                returned |-> ~r.raised,
                                repeats |-> IF ~again THEN "no"
                                            ELSE IF lastSave[u].reached
                                            THEN "reached"
                                            ELSE "dropped"]
                          ELSE lastSave[v]]
        /\ resp' = NoResp
        /\ UNCHANGED <<history, configVars, modelVars>>

GetCall(u, fault) ==
    /\ ret' = [op |-> "get", user |-> u, fault |-> fault,
               result |-> get_user_preferences(sql_enabled, fault, rows, u)]
    /\ resp' = NoResp
    /\ UNCHANGED <<rows, history, configVars, modelVars, lastSave>>

\* A direct call of log_query on the service.
LogCall(u, fault) ==
    LET log == log_query(sql_enabled, fault, history, u, "q", "answer")
    IN  /\ Len(log) <= MaxLog
        /\ history' = log
        /\ ret' = [op |-> "log", user |-> u, fault |-> fault,
                   result |-> Return(Len(log))]
        /\ resp' = NoResp
        /\ UNCHANGED <<rows, configVars, modelVars, lastSave>>

(***************************************************************************)
(* main.py: module-level configuration and the model globals.              *)
(***************************************************************************)
\* AZURE_AVAILABLE, lines 46-58.
AZURE_AVAILABLE == speechsdk /\ AZURE_SPEECH_KEY # "None"

\* init_models(): both globals are set, or both are reset to None.
init_models(loads) ==
    /\ processor' = IF loads THEN "loaded" ELSE "None"
    /\ blip_model' = IF loads THEN "loaded" ELSE "None"

\* on_startup(app)
on_startup(loads) ==
    /\ ~started
    /\ started' = TRUE
    /\ init_models(loads)
    /\ UNCHANGED <<rows, history, configVars, resp, ret, lastSave>>

(***************************************************************************)
(* What a handler hands back to the middleware: a response, or an          *)
(* exception (raised), together with the tables as the handler left them   *)
(* and the calls it made.                                                  *)
(***************************************************************************)
NoData == [none |-> TRUE]

Out(handler, status, kind, data) ==
    [raised |-> FALSE, handler |-> handler, status |-> status, kind |-> kind,
     data |-> data, rows |-> rows, history |-> history,
     decode |-> 0, infer |-> 0, logq |-> 0, telem |-> 0, sent |-> 0,
     net |-> 0, dbfault |-> "none", fail |-> "none"]

Raise(handler, status) ==
    [Out(handler, status, "exception", NoData) EXCEPT !.raised = TRUE]

(***************************************************************************)
(* main.handle_health                                                      *)
(***************************************************************************)
\* unguarded: a statement of the handler raises; the handler has no try.
handle_health(unguarded) ==
    IF unguarded THEN Raise("handle_health", 500)
    ELSE Out("handle_health", 200, "status",
             [blip_loaded |-> blip_model # "None",
              azure_speech_available |-> AZURE_AVAILABLE,
              azure_services |-> azure # "None"])

(***************************************************************************)
(* main.handle_speech_token                                                *)
(***************************************************************************)
Upstream == {"200", "non200", "neterror"}

\* unguarded: a statement before the try block (lines 164-175) raises.
\* upstream: what session.post to the token endpoint does.
handle_speech_token(unguarded, upstream) ==
    IF unguarded THEN Raise("handle_speech_token", 500)
    ELSE IF ~AZURE_AVAILABLE
    THEN Out("handle_speech_token", 500, "error_not_configured", NoData)
    ELSE LET called == [Out("handle_speech_token", 500, "error", NoData)
                          EXCEPT !.net = 1]
         IN  CASE upstream = "200" ->
                    [called EXCEPT !.status = 200, !.kind = "token"]
               [] upstream = "non200" ->
                    [called EXCEPT !.kind = "error_token_fetch_failed"]
               [] OTHER ->
                    [called EXCEPT !.kind = "error_failed_to_generate"]

(***************************************************************************)
(* main.handle_vqa                                                         *)
(***************************************************************************)
\* A field of the JSON body: absent, present but empty, or a value.  A "bad"
\* image is a non-empty string that decode_base64_image cannot decode.
ImageFields == {"absent", "empty", "good", "bad"}

QuestionFields == {"absent", "empty", "q"}

\* not image_base64 or not question
Missing(image, question) ==
    image \in {"absent", "empty"} \/ question \in {"absent", "empty"}

\* blip_model is None.  (NotLoadedByStartup is the variant that asks whether
\* startup has run instead of whether the model is there.)
NotLoadedByStartup == ~started

NotLoaded == blip_model = "None"

\* Lines 245-259: the status the request is turned away with, or 0 when it
\* goes on to decoding.  (vqa_gate_ready_first is the variant with the two
\* checks in the other order.)
vqa_gate_ready_first(image, question) ==
    IF NotLoaded THEN 503
    ELSE IF Missing(image, question) THEN 400
    ELSE 0

vqa_gate(image, question) ==
    IF Missing(image, question) THEN 400
    ELSE IF NotLoaded THEN 503
    ELSE 0

\* blip_answer(image, question): the string it returns; it never raises.
blip_answer(inferRaises) ==
    IF processor = "None" \/ blip_model = "None"
    THEN "VQA model not available"
    ELSE IF inferRaises THEN "Error processing question"
    ELSE "answer"

\* MonitoringService.track_query / track_error: the number of events that
\* reach the telemetry client (none when disabled or when the client raises).
track(telemRaises) == IF monitor_enabled /\ ~telemRaises THEN 1 ELSE 0

\* The except branch of handle_vqa: track_error when azure is set (what it
\* raises is swallowed), then 500.
vqa_failed(o, telemRaises) ==
    [o EXCEPT !.status = 500, !.kind = "error_vqa_processing_failed",
              !.data = NoData,
              !.telem = IF azure # "None" THEN o.telem + 1 ELSE o.telem,
              !.sent = IF azure # "None" THEN track(telemRaises) ELSE 0]

\* Lines 276-284: log_query then track_query; whatever track_query raises is
\* caught.  log_query catches its own failures.  (vqa_log_uncaught is the
\* variant without the try block around the two calls and inside log_query:
\* a failure of either reaches the except branch of handle_vqa.)
vqa_log_uncaught(o, answer, logFault, telemRaises) ==
    IF azure = "None" THEN o
    ELSE IF \/ (azure_sql_enabled /\ logFault # "none")
            \/ (monitor_enabled /\ telemRaises)
    THEN vqa_failed([o EXCEPT !.logq = o.logq + 1, !.dbfault = logFault],
                    telemRaises)
    ELSE [o EXCEPT !.history = log_query(azure_sql_enabled, logFault,
                                         history, "guest_user", "q", answer),
                   !.logq = o.logq + 1,
                   !.telem = o.telem + 1,
                   !.sent = track(telemRaises),
                   !.dbfault = logFault]

vqa_log(o, answer, logFault, telemRaises) ==
    IF azure = "None" THEN o
    ELSE [o EXCEPT !.history = log_query(azure_sql_enabled, logFault,
                                         history, "guest_user", "q", answer),
                   !.logq = o.logq + 1,
                   !.telem = o.telem + 1,
                   !.sent = track(telemRaises),
                   !.dbfault = logFault]

handle_vqa(jsonOk, image, question, inferRaises, logFault, telemRaises) ==
    LET base == Out("handle_vqa", 200, "answer", NoData)
    IN  IF ~jsonOk THEN vqa_failed([base EXCEPT !.fail = "json"], telemRaises)
        ELSE IF vqa_gate(image, question) = 400
        THEN [base EXCEPT !.status = 400, !.kind = "error_missing"]
        ELSE IF vqa_gate(image, question) = 503
        THEN [base EXCEPT !.status = 503, !.kind = "error_not_loaded"]
        ELSE IF image = "bad"
        THEN vqa_failed([base EXCEPT !.decode = 1, !.fail = "decode"],
                        telemRaises)
        ELSE LET answer == blip_answer(inferRaises)
             IN  vqa_log([base EXCEPT !.decode = 1, !.infer = 1,
                                      !.data = [answer |-> answer],
                                      !.fail = IF inferRaises THEN "infer"
                                               ELSE "none"],
                         answer, logFault, telemRaises)

(***************************************************************************)
(* main.decode_base64_image.  A str is a sequence of one-character strings, *)
(* a bytes object a sequence of numbers below 256.                         *)
(***************************************************************************)
\* The base64 alphabet: the character at position k stands for k - 1.
B64 ==
    <<"A", "B", "C", "D", "E", "F", "G", "H", "I", "J", "K", "L", "M",
      "N", "O", "P", "Q", "R", "S", "T", "U", "V", "W", "X", "Y", "Z",
      "a", "b", "c", "d", "e", "f", "g", "h", "i", "j", "k", "l", "m",
      "n", "o", "p", "q", "r", "s", "t", "u", "v", "w", "x", "y", "z",
      "0", "1", "2", "3", "4", "5", "6", "7", "8", "9", "+", "/">>

IsB64(c) == \E k \in DOMAIN B64 : B64[k] = c

Sextet(c) == (CHOOSE k \in DOMAIN B64 : B64[k] = c) - 1

\* binascii.a2b_base64 as base64.b64decode(s) calls it (validate=False),
\* reading s from position k on: a character outside the alphabet is
\* skipped, four sextets give three bytes, a pad that completes a quad whose
\* first two sextets were read ends the input, and input that ends inside a
\* quad raises binascii.Error.
RECURSIVE a2b_base64(_, _, _, _, _, _)
a2b_base64(s, k, quad_pos, leftchar, pads, bin_data) ==
    IF k > Len(s)
    THEN IF quad_pos # 0 THEN Raised ELSE Return(bin_data)
    ELSE IF s[k] = "="
    THEN IF quad_pos >= 2 /\ quad_pos + pads + 1 >= 4
         THEN Return(bin_data)
         ELSE a2b_base64(s, k + 1, quad_pos, leftchar, pads + 1, bin_data)
    ELSE IF ~IsB64(s[k])
    THEN a2b_base64(s, k + 1, quad_pos, leftchar, pads, bin_data)
    ELSE LET this_ch == Sextet(s[k])
         IN  CASE quad_pos = 0 ->
                    a2b_base64(s, k + 1, 1, this_ch, 0, bin_data)
               [] quad_pos = 1 ->
                    a2b_base64(s, k + 1, 2, this_ch % 16, 0,
                               Append(bin_data,
                                      leftchar * 4 + (this_ch \div 16)))
               [] quad_pos = 2 ->
                    a2b_base64(s, k + 1, 3, this_ch % 4, 0,
                               Append(bin_data,
                                      leftchar * 16 + (this_ch \div 4)))
               [] OTHER ->
                    a2b_base64(s, k + 1, 0, 0, 0,
                               Append(bin_data, leftchar * 64 + this_ch))

b64decode(s) == a2b_base64(s, 1, 0, 0, 0, << >>)

\* ',' in base64_string
HasSep(s, sep) == \E k \in DOMAIN s : s[k] = sep

\* str.split(sep): the pieces of s between the occurrences of sep.
RECURSIVE split(_, _)
split(s, sep) ==
    IF ~HasSep(s, sep) THEN <<s>>
    ELSE LET k == CHOOSE j \in DOMAIN s :
                      s[j] = sep /\ \A h \in 1..(j - 1) : s[h] # sep
         IN  <<SubSeq(s, 1, k - 1)>> \o split(SubSeq(s, k + 1, Len(s)), sep)

\* Image.open(BytesIO(image_data)).convert('RGB'): the image read from
\* these bytes, or an exception when PIL does not identify them as an image.
Image_open(image_data, identified) ==
    IF identified THEN Return([mode |-> "RGB", data |-> image_data])
    ELSE Raised

\* decode_base64_image(base64_string), lines 103-110.  What b64decode raises
\* leaves the function.  (decode_unsplit and decode_first_piece are the
\* variants that keep the whole string, or take piece [0] of the split.)
decode_unsplit(base64_string, identified) ==
    LET image_data == b64decode(base64_string)
    IN  IF image_data.raised THEN Raised
        ELSE Image_open(image_data.value, identified)

decode_first_piece(base64_string, identified) ==
    LET stripped == IF HasSep(base64_string, ",")
                    THEN split(base64_string, ",")[1]
                    ELSE base64_string
        image_data == b64decode(stripped)
    IN  IF image_data.raised THEN Raised
        ELSE Image_open(image_data.value, identified)

\* split(',')[1] of the source is the second piece: sequences start at 1.
decode_base64_image(base64_string, identified) ==
    LET stripped == IF HasSep(base64_string, ",")
                    THEN split(base64_string, ",")[2]
                    ELSE base64_string
        image_data == b64decode(stripped)
    IN  IF image_data.raised THEN Raised
        ELSE Image_open(image_data.value, identified)

\* The prefix of a PNG data URL, 'data:image/png;base64,'.
DataUrlPrefix ==
    <<"d", "a", "t", "a", ":", "i", "m", "a", "g", "e", "/", "p", "n", "g",
      ";", "b", "a", "s", "e", "6", "4", ",">>

\* One string decoded as it is and behind the data-URL prefix.
DecodeCall(identified) ==
    /\ ret.op = "arg"
    /\ ret' = [op |-> "decode",
               base64_string |-> ret.base64_string,
               identified |-> identified,
               raw |-> decode_base64_image(ret.base64_string, identified),
               url |-> decode_base64_image(DataUrlPrefix
                                               \o ret.base64_string,
                                           identified)]
    /\ resp' = NoResp
    /\ UNCHANGED <<rows, history, configVars, modelVars, lastSave>>

(***************************************************************************)
(* api_routes.handle_get_preferences / handle_save_preferences             *)
(***************************************************************************)
Fields == {"user_id", "tts_speed", "announcement_interval", "priority_mode"}

\* dict.get(key, default) on the parsed JSON body or the query string.
Get(data, key, default) == IF key \in DOMAIN data THEN data[key] ELSE default

\* The JSON object that supplies exactly the fields of given.
Body(given, u, s, i, m) ==
    [f \in given |->
        CASE f = "user_id" -> u
          [] f = "tts_speed" -> s
          [] f = "announcement_interval" -> i
          [] OTHER -> m]

WithUser(prefs, u) ==
    Row(u, prefs.tts_speed, prefs.announcement_interval, prefs.priority_mode)

\* query: the query string, a function on {} or on {"user_id"}.
handle_get_preferences(query, fault) ==
    LET user_id == Get(query, "user_id", DEFAULT_USER)
        r == get_user_preferences(sql_enabled, fault, rows, user_id)
    IN  IF r.raised
        THEN [Out("handle_get_preferences", 500, "error", NoData)
                EXCEPT !.dbfault = fault, !.fail = "store"]
        ELSE [Out("handle_get_preferences", 200, "prefs",
                  WithUser(r.value, user_id))
                EXCEPT !.dbfault = fault]

\* The record the handler builds from the body.  (FilledFromStored is the
\* merging variant: omitted fields take the values of the stored row.)
FilledFromStored(data) ==
    LET user_id == Get(data, "user_id", DEFAULT_USER)
        old == get_user_preferences(sql_enabled, "none", rows, user_id).value
    IN  Row(user_id,
            Get(data, "tts_speed", old.tts_speed),
            Get(data, "announcement_interval", old.announcement_interval),
            Get(data, "priority_mode", old.priority_mode))

\* Lines 39-42: omitted fields take the literal defaults.
Filled(data) ==
    Row(Get(data, "user_id", DEFAULT_USER),
        Get(data, "tts_speed", DEFAULT_TTS_SPEED),
        Get(data, "announcement_interval", DEFAULT_INTERVAL),
        Get(data, "priority_mode", DEFAULT_MODE))

handle_save_preferences(jsonOk, data, fault) ==
    IF ~jsonOk
    THEN [Out("handle_save_preferences", 500, "error", NoData)
            EXCEPT !.fail = "json"]
    ELSE LET p == Filled(data)
             r == save_user_preferences(sql_enabled, fault, rows, p.user_id,
                                        p.tts_speed, p.announcement_interval,
                                        p.priority_mode)
         IN  IF r.raised
             THEN [Out("handle_save_preferences", 500, "error", NoData)
                     EXCEPT !.rows = r.value, !.dbfault = fault,
                            !.fail = "store"]
             ELSE [Out("handle_save_preferences", 200, "success", p)
                     EXCEPT !.rows = r.value, !.dbfault = fault]

(***************************************************************************)
(* main.create_app and main.cors_middleware                                *)
(***************************************************************************)
Methods == {"GET", "POST", "OPTIONS"}

Paths == {"/", "/api/speech-token", "/api/vqa", "/api/preferences", "/other"}

\* The routes create_app and setup_additional_routes register.
RouteTable ==
    {<<"GET", "/">>, <<"GET", "/api/speech-token">>, <<"POST", "/api/vqa">>,
     <<"GET", "/api/preferences">>, <<"POST", "/api/preferences">>}

\* What the router resolves a request to: the registered handler (its
\* outcome is matched), or the framework's own handler, which raises
\* HTTPNotFound or HTTPMethodNotAllowed.
Resolve(method, path, matched) ==
    IF <<method, path>> \in RouteTable THEN matched
    ELSE IF \E r \in RouteTable : r[2] = path THEN Raise("system_route", 405)
    ELSE Raise("system_route", 404)

\* The three Access-Control-* headers are set on the response (cors), or the
\* exception leaves the middleware (escaped) and the framework answers.
Preflight == Out("none", 200, "empty", NoData)

cors_middleware(method, o) ==
    IF method = "OPTIONS"
    THEN [cors |-> TRUE, escaped |-> FALSE, out |-> Preflight]
    ELSE IF o.raised THEN [cors |-> FALSE, escaped |-> TRUE, out |-> o]
    ELSE [cors |-> TRUE, escaped |-> FALSE, out |-> o]

\* One request served: the middleware around the resolved handler.  req is
\* what the request carried; the response and the calls made are recorded.
Serve(method, path, req, matched) ==
    LET m == cors_middleware(method, Resolve(method, path, matched))
        o == m.out
    IN  /\ Len(o.history) <= MaxLog
        /\ rows' = o.rows
        /\ history' = o.history
        /\ resp' = [route |-> path, method |-> method, req |-> req,
                    loaded |-> blip_model # "None",
                    handler |-> o.handler, status |-> o.status,
                    kind |-> o.kind, data |-> o.data, cors |-> m.cors,
                    escaped |-> m.escaped, fail |-> o.fail,
                    decode |-> o.decode,
                    infer |-> o.infer, logq |-> o.logq, telem |-> o.telem,
                    sent |-> o.sent, net |-> o.net, dbfault |-> o.dbfault]
        /\ ret' = NoRet
        /\ UNCHANGED <<configVars, modelVars, lastSave>>

(***************************************************************************)
(* The requests.                                                           *)
(***************************************************************************)
NoReq == [none |-> TRUE]

Health(unguarded) ==
    /\ unguarded \in BOOLEAN
    /\ Serve("GET", "/", [unguarded |-> unguarded], handle_health(unguarded))

\* The upstream is only asked when nothing raised before the call.
SpeechToken(unguarded, upstream) ==
    /\ unguarded => upstream = "200"
    /\ Serve("GET", "/api/speech-token", [unguarded |-> unguarded],
             handle_speech_token(unguarded, upstream))

\* A body that is not JSON has no fields; inference and the query log can
\* only fail for a request that carries both fields; the telemetry client
\* can only raise where there is one.
Vqa(jsonOk, image, question, inferRaises, logFault, telemRaises) ==
    /\ jsonOk \/ (image = "absent" /\ question = "absent")
    /\ (inferRaises \/ logFault # "none") =>
           (jsonOk /\ image = "good" /\ question = "q")
    /\ telemRaises => (azure # "None" /\ monitor_enabled)
    /\ Serve("POST", "/api/vqa",
             [jsonOk |-> jsonOk, image |-> image, question |-> question],
             handle_vqa(jsonOk, image, question, inferRaises, logFault,
                        telemRaises))

GetPreferences(query, fault) ==
    /\ fault \in DbFaults
    /\ Serve("GET", "/api/preferences", [query |-> query],
             handle_get_preferences(query, fault))

SavePreferences(jsonOk, data, fault) ==
    /\ jsonOk \/ (data = << >> /\ fault = "none")
    /\ Serve("POST", "/api/preferences",
             [jsonOk |-> jsonOk, data |-> data],
             handle_save_preferences(jsonOk, data, fault))

\* A request no registered route matches: OPTIONS on any path, a path that
\* is not registered, or a registered path with another method.
Other(method, path) ==
    /\ <<method, path>> \notin RouteTable
    /\ Serve(method, path, NoReq, Raise("system_route", 404))

Queries == {<< >>} \cup {[f \in {"user_id"} |-> u] : u \in Users}

Bodies ==
    UNION {{Body(given, u, s, i, m) :
               u \in Users, s \in Speeds, i \in Intervals, m \in Modes} :
           given \in SUBSET Fields}

\* The bodies the full facade is explored with.
FewBodies == {<< >>, Body({"user_id", "tts_speed"}, "u1", 15, 10, "dynamic")}

(***************************************************************************)
(* The facade: every route, every configuration.                           *)
(***************************************************************************)
Init ==
    /\ rows = {}
    /\ history = << >>
    /\ sql_init \in DbFaults
    /\ sql_enabled = AzureSQLService_init(sql_init)
    /\ azure \in {"None", "mgr"}
    /\ azure_sql_enabled \in (IF azure = "None" THEN {FALSE} ELSE BOOLEAN)
    /\ monitor_enabled \in (IF azure = "None" THEN {FALSE} ELSE BOOLEAN)
    /\ blip_model = "None"
    /\ processor = "None"
    /\ started = FALSE
    /\ AZURE_SPEECH_KEY \in {"None", "key"}
    /\ speechsdk \in BOOLEAN
    /\ resp = NoResp
    /\ ret = NoRet
    /\ lastSave = << >>

Next ==
    \/ \E loads \in BOOLEAN : on_startup(loads)
    \/ \E method \in Methods, path \in Paths : Other(method, path)
    \/ \E unguarded \in BOOLEAN : Health(unguarded)
    \/ \E unguarded \in BOOLEAN, upstream \in Upstream :
          SpeechToken(unguarded, upstream)
    \/ \E jsonOk \in BOOLEAN, image \in ImageFields,
          question \in QuestionFields, inferRaises \in BOOLEAN,
          logFault \in DbFaults, telemRaises \in BOOLEAN :
          Vqa(jsonOk, image, question, inferRaises, logFault, telemRaises)
    \/ \E query \in Queries, fault \in DbFaults : GetPreferences(query, fault)
    \/ \E jsonOk \in BOOLEAN, data \in FewBodies, fault \in DbFaults :
          SavePreferences(jsonOk, data, fault)

Spec == Init /\ [][Next]_vars

(***************************************************************************)
(* The preference store and the preference routes of api_routes, over      *)
(* every body, with the service online or offline.                         *)
(***************************************************************************)
\* The records the direct calls save.
SavedPrefs == {DEFAULT_PREFS, Prefs(15, 5, "static"), Prefs(15, 10, "static")}

InitStore ==
    /\ rows = {}
    /\ history = << >>
    /\ sql_init \in DbFaults
    /\ sql_enabled = AzureSQLService_init(sql_init)
    /\ azure = "None"
    /\ azure_sql_enabled = FALSE
    /\ monitor_enabled = FALSE
    /\ blip_model = "None"
    /\ processor = "None"
    /\ started = FALSE
    /\ AZURE_SPEECH_KEY = "None"
    /\ speechsdk = FALSE
    /\ resp = NoResp
    /\ ret = NoRet
    /\ lastSave = << >>

\* Direct calls on the service, and the GET route that reads through it.
NextStore ==
    \/ \E u \in Users, p \in SavedPrefs, fault \in DbFaults :
          SaveCall(u, p.tts_speed, p.announcement_interval, p.priority_mode,
                   fault)
    \/ \E u \in Users, fault \in DbFaults : GetCall(u, fault)
    \/ \E query \in Queries, fault \in DbFaults : GetPreferences(query, fault)

SpecStore == InitStore /\ [][NextStore]_vars

(***************************************************************************)
(* The three methods of the service called directly, in any order.         *)
(***************************************************************************)
NextService ==
    \/ \E u \in Users, p \in SavedPrefs, fault \in DbFaults :
          SaveCall(u, p.tts_speed, p.announcement_interval, p.priority_mode,
                   fault)
    \/ \E u \in Users, fault \in DbFaults : GetCall(u, fault)
    \/ \E fault \in DbFaults : LogCall("u1", fault)

SpecService == InitStore /\ [][NextService]_vars

(***************************************************************************)
(* The preference routes alone, over every body.                           *)
(***************************************************************************)
NextPrefs ==
    \/ \E query \in Queries, fault \in DbFaults : GetPreferences(query, fault)
    \/ \E jsonOk \in BOOLEAN, data \in Bodies, fault \in DbFaults :
          SavePreferences(jsonOk, data, fault)

SpecPrefs == InitStore /\ [][NextPrefs]_vars

(***************************************************************************)
(* decode_base64_image alone, over every short string of Chars.            *)
(***************************************************************************)
Chars == {"A", "Q", "/", "=", ",", ":"}

Strings == UNION {[1..n -> Chars] : n \in 0..MaxLen}

InitDecode ==
    /\ rows = {}
    /\ history = << >>
    /\ sql_init = "connect"
    /\ sql_enabled = AzureSQLService_init(sql_init)
    /\ azure = "None"
    /\ azure_sql_enabled = FALSE
    /\ monitor_enabled = FALSE
    /\ blip_model = "None"
    /\ processor = "None"
    /\ started = FALSE
    /\ AZURE_SPEECH_KEY = "None"
    /\ speechsdk = FALSE
    /\ resp = NoResp
    /\ ret \in {[op |-> "arg", base64_string |-> s] : s \in Strings}
    /\ lastSave = << >>

NextDecode == \E identified \in BOOLEAN : DecodeCall(identified)

SpecDecode == InitDecode /\ [][NextDecode]_vars

(***************************************************************************)
(* Properties.                                                             *)
(***************************************************************************)
IsReq(method, path) == resp.route = path /\ resp.method = method

IsVqa == IsReq("POST", "/api/vqa")

ErrorKinds ==
    {"error", "error_missing", "error_not_loaded", "error_not_configured",
     "error_token_fetch_failed", "error_failed_to_generate",
     "error_vqa_processing_failed"}

\* The record a POST /api/preferences body asks for: the fields it gives,
\* the documented default for each field it omits.
Expected(data) ==
    Row(IF "user_id" \in DOMAIN data THEN data["user_id"] ELSE "default_user",
        IF "tts_speed" \in DOMAIN data THEN data["tts_speed"] ELSE 10,
        IF "announcement_interval" \in DOMAIN data
        THEN data["announcement_interval"] ELSE 10,
        IF "priority_mode" \in DOMAIN data THEN data["priority_mode"]
        ELSE "dynamic")

\* C1 as stated: whenever the last save call for a user returned, every get
\* for that user returns exactly the saved values.
C1_RoundTripUnconditional ==
    \A u \in DOMAIN lastSave :
        lastSave[u].returned =>
            \A f \in DbFaults :
                get_user_preferences(sql_enabled, f, rows, u)
                    = Return(lastSave[u].prefs)

\* C1 (amended): when the last save call for a user returned and the service
\* was online with the database round trip of that save succeeding, a get
\* for that user whose own round trip succeeds returns exactly the saved
\* values, whatever saves and gets were made before or for other users.
C1_RoundTrip ==
    /\ \A u \in DOMAIN lastSave :
          (lastSave[u].returned /\ lastSave[u].reached) =>
              get_user_preferences(sql_enabled, "none", rows, u)
                  = Return(lastSave[u].prefs)
    /\ (/\ ret.op = "get"
        /\ ret.fault = "none"
        /\ ret.user \in DOMAIN lastSave
        /\ lastSave[ret.user].returned
        /\ lastSave[ret.user].reached)
       => ret.result = Return(lastSave[ret.user].prefs)

C1_Witness ==
    /\ ret.op = "get"
    /\ ret.fault = "none"
    /\ ret.user = "u1"
    /\ DOMAIN lastSave = Users
    /\ lastSave["u1"].returned
    /\ lastSave["u1"].reached
    /\ lastSave["u1"].prefs = Prefs(15, 5, "static")
    /\ lastSave[DEFAULT_USER].reached
    /\ lastSave[DEFAULT_USER].prefs = Prefs(15, 10, "static")
    /\ ret.result = Return(Prefs(15, 5, "static"))

\* C2: a POST /api/vqa whose image decoding or model inference raised is
\* answered 500 with an error body, never 200 with an answer.
C2_FailureIs500 ==
    (IsVqa /\ resp.fail \in {"decode", "infer"}) =>
        (resp.status = 500 /\ resp.kind = "error_vqa_processing_failed")

\* C3: a POST /api/vqa carrying both fields while blip_model is None is
\* answered 503 with no decode, no inference, no query-log append and no
\* telemetry; no POST /api/vqa is answered 200 while blip_model is None; and
\* such a request leaves the query log as it was.
C3_State ==
    /\ (/\ IsVqa
        /\ ~resp.loaded
        /\ resp.req.jsonOk
        /\ resp.req.image \in {"good", "bad"}
        /\ resp.req.question = "q")
       => (/\ resp.status = 503
           /\ resp.kind = "error_not_loaded"
           /\ resp.cors
           /\ resp.decode = 0
           /\ resp.infer = 0
           /\ resp.logq = 0
           /\ resp.telem = 0)
    /\ (IsVqa /\ ~resp.loaded) => resp.status # 200

C3_NotReady503 ==
    /\ []C3_State
    /\ [][(resp' # resp /\ resp'.route = "/api/vqa"
           /\ resp'.method = "POST" /\ ~resp'.loaded)
          => history' = history]_vars

C3_Witness ==
    /\ IsVqa
    /\ started
    /\ ~resp.loaded
    /\ resp.req.image = "good"
    /\ resp.req.question = "q"
    /\ resp.status = 503

\* C4: a POST /api/vqa whose JSON body lacks imageBase64 or question (absent
\* or empty) is answered 400 with the missing-fields error whether or not the
\* model is loaded, with no decode, inference, query-log append or telemetry
\* call, and leaves the query log as it was.
C4_State ==
    (/\ IsVqa
     /\ resp.req.jsonOk
     /\ \/ resp.req.image \in {"absent", "empty"}
        \/ resp.req.question \in {"absent", "empty"})
    => (/\ resp.status = 400
        /\ resp.kind = "error_missing"
        /\ resp.cors
        /\ resp.decode = 0
        /\ resp.infer = 0
        /\ resp.logq = 0
        /\ resp.telem = 0)

C4_Missing400 ==
    /\ []C4_State
    /\ [][(/\ resp' # resp
           /\ resp'.route = "/api/vqa"
           /\ resp'.method = "POST"
           /\ resp'.req.jsonOk
           /\ \/ resp'.req.image \in {"absent", "empty"}
              \/ resp'.req.question \in {"absent", "empty"})
          => history' = history]_vars

C4_Witness ==
    /\ IsVqa
    /\ ~resp.loaded
    /\ resp.req.jsonOk
    /\ resp.req.image = "good"
    /\ resp.req.question = "absent"
    /\ resp.status = 400

\* C5: on every registered route, an exception that reaches the handler
\* level or leaves the handler ends as a 500 response with a JSON error
\* body, and none leaves the middleware.
C5_ExceptionsBecomeJson500 ==
    (/\ resp.route # "none"
     /\ <<resp.method, resp.route>> \in RouteTable
     /\ \/ resp.fail \in {"json", "decode", "store"}
        \/ resp.kind = "exception")
    => (/\ resp.status = 500
        /\ resp.kind \in ErrorKinds
        /\ ~resp.escaped)

\* C6 as stated: every POST /api/preferences with a JSON body is answered
\* with the default-filled record and that record is the one stored for the
\* user.
C6_AlwaysStored ==
    (IsReq("POST", "/api/preferences") /\ resp.req.jsonOk) =>
        LET want == Expected(resp.req.data)
        IN  /\ resp.status = 200
            /\ resp.data = want
            /\ Matching(rows, want.user_id) = {want}

\* C6 (amended): a POST /api/preferences with a JSON body whose save returns
\* is answered 200 with the given fields and the documented default for
\* every omitted field; when the service is online and the database round
\* trip succeeds, that record is the one row stored for the user, whatever
\* was stored before.
C6_DefaultsFill ==
    (IsReq("POST", "/api/preferences") /\ resp.req.jsonOk) =>
        LET want == Expected(resp.req.data)
        IN  /\ resp.fail = "none" =>
                (/\ resp.status = 200
                 /\ resp.kind = "success"
                 /\ resp.data = want)
            /\ (sql_enabled /\ resp.dbfault = "none") =>
                (/\ resp.fail = "none"
                 /\ Matching(rows, want.user_id) = {want})

C6_Witness ==
    /\ IsReq("POST", "/api/preferences")
    /\ resp.req.jsonOk
    /\ resp.req.data = Body({"user_id", "tts_speed"}, "u1", 15, 5, "static")
    /\ sql_enabled
    /\ resp.dbfault = "none"
    /\ rows = {Row("u1", 15, 10, "dynamic"), Row(DEFAULT_USER, 15, 5, "static")}

\* C7: for a user no save call was ever made for, the table holds no row and
\* every get that returns returns the fixed default, through the service and
\* through GET /api/preferences alike; and no get changes the table.
NeverSaved(u) == u \notin DOMAIN lastSave

C7_State ==
    /\ \A u \in Users :
          NeverSaved(u) =>
              /\ Matching(rows, u) = {}
              /\ \A f \in DbFaults \ {"close"} :
                    get_user_preferences(sql_enabled, f, rows, u)
                        = Return(Prefs(10, 10, "dynamic"))
    /\ (ret.op = "get" /\ NeverSaved(ret.user) /\ ~ret.result.raised)
       => ret.result.value = Prefs(10, 10, "dynamic")
    /\ (/\ IsReq("GET", "/api/preferences")
        /\ resp.status = 200
        /\ NeverSaved(resp.data.user_id))
       => resp.data = Row(resp.data.user_id, 10, 10, "dynamic")

C8_State ==
    /\ \A u \in Users :
          /\ get_user_preferences(sql_enabled, "connect", rows, u)
                = Return(Prefs(10, 10, "dynamic"))
          /\ \A p \in SavedPrefs :
                save_user_preferences(sql_enabled, "connect", rows, u,
                                      p.tts_speed, p.announcement_interval,
                                      p.priority_mode) = Return(rows)
    /\ (IsReq("GET", "/api/preferences") /\ resp.dbfault = "connect")
       => (/\ resp.status = 200
           /\ resp.kind = "prefs"
           /\ resp.data = Row(resp.data.user_id, 10, 10, "dynamic")
           /\ ~resp.escaped)
    /\ (/\ IsReq("POST", "/api/preferences")
        /\ resp.req.jsonOk
        /\ resp.dbfault = "connect")
       => (/\ resp.status = 200
           /\ resp.kind = "success"
           /\ resp.data = Expected(resp.req.data)
           /\ ~resp.escaped)

C8_StoreFailureHidden ==
    /\ []C8_State
    /\ [][(resp' # resp /\ resp'.route # "none" /\ resp'.dbfault = "connect")
          => rows' = rows]_vars

C8_Witness ==
    /\ IsReq("POST", "/api/preferences")
    /\ sql_enabled
    /\ resp.dbfault = "connect"
    /\ resp.status = 200
    /\ resp.kind = "success"
    /\ resp.data = Row("u1", 15, 10, "dynamic")
    /\ Matching(rows, "u1") = {Row("u1", 10, 5, "static")}

\* C9: every response carries the cross-origin headers, and an OPTIONS
\* request is answered with an empty 200 without entering a handler.
C9_EveryResponseCors ==
    resp.route # "none" =>
        /\ resp.cors
        /\ resp.method = "OPTIONS" =>
              (resp.status = 200 /\ resp.kind = "empty"
               /\ resp.handler = "none")

\* C10 as stated: GET /api/speech-token makes no outbound call and answers
\* 500 when AZURE_SPEECH_KEY is absent, and exactly one outbound call when
\* it is present.
C10_KeyDecides ==
    (IsReq("GET", "/api/speech-token") /\ ~resp.req.unguarded) =>
        /\ AZURE_SPEECH_KEY = "None" =>
              (/\ resp.status = 500
               /\ resp.kind = "error_not_configured"
               /\ resp.net = 0)
        /\ AZURE_SPEECH_KEY # "None" => resp.net = 1

\* What the handler does instead (not a claim): AZURE_AVAILABLE decides.  It
\* answers 500 with the configuration error and makes no outbound call when
\* AZURE_SPEECH_KEY is absent or the speech SDK could not be imported;
\* otherwise a request that reaches the token fetch makes exactly one
\* outbound call, answered 200 only when the upstream answered 200.
C10_AvailableDecides ==
    (IsReq("GET", "/api/speech-token") /\ ~resp.req.unguarded) =>
        /\ (AZURE_SPEECH_KEY = "None" \/ ~speechsdk) =>
              (/\ resp.status = 500
               /\ resp.kind = "error_not_configured"
               /\ resp.net = 0)
        /\ (AZURE_SPEECH_KEY # "None" /\ speechsdk) =>
              (/\ resp.net = 1
               /\ resp.status \in {200, 500}
               /\ resp.status = 200 <=> resp.kind = "token")

\* C11 as stated: a POST /api/vqa whose inference produced an answer is
\* answered 200 with that answer whatever log_query and track_query do, and
\* exactly one log_query call is made for it.
C11_AlwaysOneAppend ==
    (IsVqa /\ resp.infer = 1 /\ resp.fail = "none") =>
        (/\ resp.status = 200
         /\ resp.kind = "answer"
         /\ resp.data = [answer |-> "answer"]
         /\ resp.logq = 1)

\* C11 (amended): a POST /api/vqa whose inference produced an answer is
\* answered 200 with that answer whether log_query and track_query succeed,
\* fail or the store is offline; exactly one log_query call is made for it
\* when the services manager (azure) exists and none when it does not, and
\* the query log grows by at most one row.
C11_State ==
    (IsVqa /\ resp.infer = 1 /\ resp.fail = "none") =>
        (/\ resp.status = 200
         /\ resp.kind = "answer"
         /\ resp.data = [answer |-> "answer"]
         /\ resp.cors
         /\ ~resp.escaped
         /\ resp.logq = (IF azure = "None" THEN 0 ELSE 1)
         /\ resp.telem = resp.logq)

C11_LoggingNeverChangesResponse ==
    /\ []C11_State
    /\ [][(resp' # resp /\ resp'.route = "/api/vqa")
          => /\ Len(history') <= Len(history) + resp'.logq
             /\ \A k \in 1..Len(history) : history'[k] = history[k]]_vars

\* The store refused the connection and the telemetry client raised, and the
\* answer went out all the same.
C11_Witness ==
    /\ IsVqa
    /\ resp.infer = 1
    /\ resp.fail = "none"
    /\ azure = "mgr"
    /\ azure_sql_enabled
    /\ monitor_enabled
    /\ resp.dbfault = "connect"
    /\ resp.sent = 0
    /\ resp.logq = 1
    /\ resp.status = 200

\* C12, first half (holds as stated): whatever saves were made, the table
\* holds at most one row per user_id.
C12_AtMostOneRow ==
    \A u \in Users : Cardinality(Matching(rows, u)) <= 1

\* A step that is a save made directly after a save of the same values for
\* the same user.
C12_SavedAgain ==
    /\ ret.op = "save"
    /\ ret'.op = "save"
    /\ ret'.user = ret.user
    /\ lastSave'[ret.user].prefs = lastSave[ret.user].prefs

\* What get_user_preferences returns for u, before and after the step, for
\* each outcome of its own database round trip.
C12_SameRecord(u) ==
    \A fault \in DbFaults :
        get_user_preferences(sql_enabled, fault, rows', u)
            = get_user_preferences(sql_enabled, fault, rows, u)

C13_IsPayload(s) == \A k \in DOMAIN s : IsB64(s[k]) \/ s[k] = "="

\* C13: for every base64 payload P, decode_base64_image gives the same
\* outcome (the same image bytes, or an exception in both cases) for
\* 'data:image/png;base64,' + P and for P; and a string without a comma is
\* handed to b64decode as it is.
C13_PrefixStripped ==
    ret.op = "decode" =>
        /\ C13_IsPayload(ret.base64_string) => ret.url = ret.raw
        /\ ~HasSep(ret.base64_string, ",") =>
              /\ b64decode(ret.base64_string).raised => ret.raw = Raised
              /\ ~b64decode(ret.base64_string).raised =>
                    ret.raw = Image_open(b64decode(ret.base64_string).value,
                                         ret.identified)

\* 'QQ==' is the one byte 65 both raw and behind the prefix.
C13_Witness ==
    /\ ret.op = "decode"
    /\ ret.base64_string = <<"Q", "Q", "=", "=">>
    /\ ret.identified
    /\ ret.raw = Return([mode |-> "RGB", data |-> <<65>>])
    /\ ret.url = ret.raw

\* C14: enabled is False exactly when the one-time initialization failed and
\* no step changes it; while it is False every save and every log_query
\* leaves both tables as they were and returns, and every
\* get_user_preferences returns the default record, whatever the store would
\* have answered (a reachable store included); while it is True the calls
\* go to the store whatever failed before.
C14_State ==
    /\ sql_enabled <=> (sql_init = "none")
    /\ (~sql_enabled /\ ret.op \in {"save", "get", "log"}) =>
          /\ rows = {}
          /\ history = << >>
          /\ ~ret.result.raised
          /\ ret.op = "get" =>
                ret.result.value = Prefs(10, 10, "dynamic")
    /\ (sql_enabled /\ ret.op = "save" /\ ret.fault = "none") =>
          Row(ret.user, lastSave[ret.user].prefs.tts_speed,
              lastSave[ret.user].prefs.announcement_interval,
              lastSave[ret.user].prefs.priority_mode) \in rows

C14_OfflineSticky ==
    /\ []C14_State
    /\ [][/\ sql_enabled' = sql_enabled
          /\ sql_init' = sql_init
          /\ ~sql_enabled => (rows' = rows /\ history' = history)]_vars

\* The initialization could not connect; later a save whose own database
\* round trip would have succeeded was made, and nothing was stored.
C14_Witness ==
    /\ sql_init = "connect"
    /\ ~sql_enabled
    /\ ret.op = "save"
    /\ ret.fault = "none"
    /\ ret.user = "u1"
    /\ lastSave["u1"].prefs = Prefs(15, 5, "static")
    /\ lastSave["u1"].returned
    /\ rows = {}

\* The service is online although an earlier save failed to connect: the
\* later save reached the table.
C14_OnlineWitness ==
    /\ sql_enabled
    /\ ret.op = "save"
    /\ ret.fault = "none"
    /\ DOMAIN lastSave = Users
    /\ lastSave["u1"].reached
    /\ ~lastSave[DEFAULT_USER].reached

====
